---- MODULE Spec2Model ----
(***************************************************************************)
(* A model of src/src/svg_tree.rs: the SvgTree document tree, its two      *)
(* constructors, the consuming append `add`, and the two renderers         *)
(* (Display = compact, Debug = indented).                                  *)
(*                                                                         *)
(* A Rust String is modelled as a sequence of one-character strings, so    *)
(* that line splitting, trimming and byte-wise key ordering are computed   *)
(* rather than assumed.  An Option is a sequence of length 0 (None) or 1   *)
(* (Some), which is also what Option::into_iter yields.                    *)
(***************************************************************************)
EXTENDS Integers, Sequences, FiniteSets, TLC

(***************************************************************************)
(* Strings                                                                 *)
(***************************************************************************)

\* A string literal as a sequence of characters.
Str(s) == [i \in 1..Len(s) |-> SubSeq(s, i, i)]

LF == "\n"
CR == "\r"

\* The ASCII digits and letters, each run in byte order.
Digits == Str("0123456789")
Upper == Str("ABCDEFGHIJKLMNOPQRSTUVWXYZ")
Lower == Str("abcdefghijklmnopqrstuvwxyz")

IndexIn(table, c) == CHOOSE i \in 1..Len(table) : table[i] = c
Range(table) == {table[i] : i \in 1..Len(table)}

\* The byte of a character (u8 of its UTF-8 encoding; ASCII only here).
Byte(c) ==
    CASE c \in Range(Digits) -> 47 + IndexIn(Digits, c)
      [] c \in Range(Upper) -> 64 + IndexIn(Upper, c)
      [] c \in Range(Lower) -> 96 + IndexIn(Lower, c)
      [] c = "\t" -> 9
      [] c = LF -> 10
      [] c = CR -> 13
      [] c = " " -> 32
      [] c = "\"" -> 34
      [] c = "." -> 46
      [] c = "/" -> 47
      [] c = ":" -> 58
      [] c = "<" -> 60
      [] c = "=" -> 61
      [] c = ">" -> 62

\* Ord for String: lexicographic on bytes, a proper prefix sorting first.
RECURSIVE StrLess(_, _)
StrLess(a, b) ==
    IF b = <<>> THEN FALSE
    ELSE IF a = <<>> THEN TRUE
    ELSE IF Head(a) = Head(b) THEN StrLess(Tail(a), Tail(b))
    ELSE Byte(Head(a)) < Byte(Head(b))

\* char::is_whitespace restricted to ASCII, as used by str::trim.
IsWhitespace(c) == c \in {" ", "\t", LF, CR}

\* line.trim().is_empty()
TrimIsEmpty(line) == \A i \in 1..Len(line) : IsWhitespace(line[i])

\* Option
None == <<>>
Some(x) == <<x>>
UnwrapOrDefault(opt) == IF opt = None THEN <<>> ELSE opt[1]

\* Iterator::reduce(|a, b| a + sep + b): None on an empty iterator.
RECURSIVE FoldJoin(_, _, _)
FoldJoin(acc, items, sep) ==
    IF items = <<>> THEN acc
    ELSE FoldJoin(acc \o sep \o Head(items), Tail(items), sep)

Reduce(items, sep) ==
    IF items = <<>> THEN None ELSE Some(FoldJoin(Head(items), Tail(items), sep))

\* str::split_inclusive('\n'): the pieces, each keeping its terminator.  A
\* piece starts at the first character and after every "\n" but a final one.
SplitInclusive(s) ==
    LET ends == {p \in 1..Len(s) : s[p] = LF} \cup (IF s = <<>> THEN {} ELSE {Len(s)})
        starts == {q \in 1..Len(s) : q = 1 \/ s[q - 1] = LF}
        nth(j) == CHOOSE q \in starts : Cardinality({r \in starts : r < q}) = j - 1
        stop(q) == CHOOSE p \in ends : p >= q /\ \A r \in ends : r >= q => p <= r
    IN  [j \in 1..Cardinality(starts) |-> SubSeq(s, nth(j), stop(nth(j)))]

\* The map of str::lines: strip one trailing "\n", then one "\r" before it.
StripLineEnding(piece) ==
    IF piece # <<>> /\ piece[Len(piece)] = LF
    THEN LET l == SubSeq(piece, 1, Len(piece) - 1)
         IN  IF l # <<>> /\ l[Len(l)] = CR THEN SubSeq(l, 1, Len(l) - 1) ELSE l
    ELSE piece

\* str::lines
Lines(s) ==
    LET pieces == SplitInclusive(s)
    IN  [i \in 1..Len(pieces) |-> StripLineEnding(pieces[i])]

(***************************************************************************)
(* ViewBox: the external type, known here by its default and string form.  *)
(***************************************************************************)

\* ViewBox::default()
ViewBoxDefault == <<0, 0, 0, 0>>

\* ViewBox::to_string(): the four numbers separated by spaces.
ViewBoxToString(vb) ==
    UnwrapOrDefault(Reduce([i \in 1..Len(vb) |-> <<Digits[vb[i] + 1]>>], <<" ">>))

(***************************************************************************)
(* The tree                                                                *)
(***************************************************************************)

\* enum SvgTreeChildren
Content(text) == [variant |-> "Content", val |-> text]
Children(nodes) == [variant |-> "Children", val |-> nodes]

\* BTreeMap<String, String> as the key-ordered sequence of its entries.
BTreeMapNew == <<>>

\* A map that keeps insertion order instead of key order.
RECURSIVE BTreeMapInsertUnordered(_, _, _)
BTreeMapInsertUnordered(m, k, v) ==
    IF m = <<>> THEN <<<<k, v>>>>
    ELSE IF Head(m)[1] = k THEN <<<<k, v>>>> \o Tail(m)
    ELSE <<Head(m)>> \o BTreeMapInsertUnordered(Tail(m), k, v)

RECURSIVE BTreeMapInsert(_, _, _)
BTreeMapInsert(m, k, v) ==
    IF m = <<>> THEN <<<<k, v>>>>
    ELSE IF Head(m)[1] = k THEN <<<<k, v>>>> \o Tail(m)
    ELSE IF StrLess(k, Head(m)[1]) THEN <<<<k, v>>>> \o m
    ELSE <<Head(m)>> \o BTreeMapInsert(Tail(m), k, v)

RECURSIVE BTreeMapFromIter(_)
BTreeMapFromIter(pairs) ==
    IF pairs = <<>> THEN BTreeMapNew
    ELSE LET last == pairs[Len(pairs)]
         IN  BTreeMapInsert(BTreeMapFromIter(SubSeq(pairs, 1, Len(pairs) - 1)),
                            last[1], last[2])

\* struct SvgTree
SvgTree(tag, content, attrs, id, viewbox) ==
    [tag |-> tag, content |-> content, attrs |-> attrs, id |-> id, viewbox |-> viewbox]

\* SvgTree::root
root ==
    SvgTree(Str("svg"),
            Children(<<>>),
            BTreeMapFromIter(<< <<Str("xmlns"), Str("http://www.w3.org/2000/svg")>>,
                                <<Str("preserveAspectRatio"), Str("xMidYMid meet")>> >>),
            None,
            Some(ViewBoxDefault))

\* SvgTree::leaf
leaf(tag, content) == SvgTree(tag, Content(content), BTreeMapNew, None, None)

\* An add that turns a Text node into a parent of the child.
addAdopting(self, child) ==
    IF self.content.variant = "Children"
    THEN [self EXCEPT !.content = Children(Append(self.content.val, child))]
    ELSE [self EXCEPT !.content = Children(<<child>>)]

\* An add that puts the child first.
addFirst(self, child) ==
    IF self.content.variant = "Children"
    THEN [self EXCEPT !.content = Children(<<child>> \o self.content.val)]
    ELSE self

\* SvgTree::add
add(self, child) ==
    IF self.content.variant = "Children"
    THEN [self EXCEPT !.content = Children(Append(self.content.val, child))]
    ELSE self

(***************************************************************************)
(* Rendering                                                               *)
(***************************************************************************)

\* format!("{key}=\"{value}\"")
FormatAttr(kv) == kv[1] \o <<"=", "\"">> \o kv[2] \o <<"\"">>

\* A view box entry that gives way to a "viewBox" key of attrs.
ViewBoxEntryUnlessInAttrs(self) ==
    IF self.viewbox = None \/ \E k \in 1..Len(self.attrs) : self.attrs[k][1] = Str("viewBox")
    THEN None
    ELSE Some(<<Str("viewBox"), ViewBoxToString(self.viewbox[1])>>)

\* self.viewbox.as_ref().map(|vb| ("viewBox", vb.to_string()))
ViewBoxEntry(self) ==
    IF self.viewbox = None THEN None
    ELSE Some(<<Str("viewBox"), ViewBoxToString(self.viewbox[1])>>)

\* The attrs argument of Display::fmt: attrs, then vb, joined by spaces.
DisplayAttrs(self) ==
    LET chain == self.attrs \o ViewBoxEntry(self)
        items == [i \in 1..Len(chain) |-> FormatAttr(chain[i])]
        joined == Reduce(items, <<" ">>)
    IN  UnwrapOrDefault(IF joined = None THEN None ELSE Some(<<" ">> \o joined[1]))

\* The attrs argument of Debug::fmt (the same chain, written a second time).
DebugAttrs(self) ==
    LET chain == self.attrs \o ViewBoxEntry(self)
        items == [i \in 1..Len(chain) |-> FormatAttr(chain[i])]
        joined == Reduce(items, <<" ">>)
    IN  UnwrapOrDefault(IF joined = None THEN None ELSE Some(<<" ">> \o joined[1]))

\* "<{tag}{attrs}>{content}</{tag}>"
FormatElement(tag, attrs, content) ==
    <<"<">> \o tag \o attrs \o <<">">> \o content \o <<"<", "/">> \o tag \o <<">">>

\* A closure that indents blank lines too.
IndentLineAlways(line) == <<" ", " ">> \o line

\* The closure of Debug::fmt's lines().map(..): indent unless blank.
IndentLine(line) == IF ~TrimIsEmpty(line) THEN <<" ", " ">> \o line ELSE <<>>

\* The content argument of Debug::fmt, from the Debug form of the content.
IndentContent(debugged) ==
    LET ls == Lines(debugged)
        mapped == [i \in 1..Len(ls) |-> IndentLine(ls[i])]
        joined == Reduce(mapped, <<LF>>)
    IN  UnwrapOrDefault(IF joined = None THEN None ELSE Some(joined[1] \o <<LF>>))

RECURSIVE SvgTreeDisplay(_), SvgTreeDebug(_)

\* A Display that puts a space between the children.
SvgTreeChildrenDisplaySpaced(content) ==
    IF content.variant = "Content" THEN content.val
    ELSE UnwrapOrDefault(
             Reduce([i \in 1..Len(content.val) |-> SvgTreeDisplay(content.val[i])], <<" ">>))

\* impl Display for SvgTreeChildren
SvgTreeChildrenDisplay(content) ==
    IF content.variant = "Content" THEN content.val
    ELSE UnwrapOrDefault(
             Reduce([i \in 1..Len(content.val) |-> SvgTreeDisplay(content.val[i])], <<>>))

\* A Debug that wraps the children in newlines even when there are none.
SvgTreeChildrenDebugAlwaysWrapped(content) ==
    IF content.variant = "Content" THEN <<LF>> \o content.val \o <<LF>>
    ELSE <<LF>>
         \o UnwrapOrDefault(
                Reduce([i \in 1..Len(content.val) |-> SvgTreeDebug(content.val[i])], <<LF>>))
         \o <<LF>>

\* A Debug that gives an empty text no line.
SvgTreeChildrenDebugSkipEmptyText(content) ==
    IF content.variant = "Content"
    THEN (IF content.val = <<>> THEN <<>> ELSE <<LF>> \o content.val \o <<LF>>)
    ELSE LET joined ==
                 Reduce([i \in 1..Len(content.val) |-> SvgTreeDebug(content.val[i])], <<LF>>)
         IN  UnwrapOrDefault(
                 IF joined = None THEN None ELSE Some(<<LF>> \o joined[1] \o <<LF>>))

\* impl Debug for SvgTreeChildren
SvgTreeChildrenDebug(content) ==
    IF content.variant = "Content" THEN <<LF>> \o content.val \o <<LF>>
    ELSE LET joined ==
                 Reduce([i \in 1..Len(content.val) |-> SvgTreeDebug(content.val[i])], <<LF>>)
         IN  UnwrapOrDefault(
                 IF joined = None THEN None ELSE Some(<<LF>> \o joined[1] \o <<LF>>))

\* impl Display for SvgTree
SvgTreeDisplay(self) ==
    FormatElement(self.tag, DisplayAttrs(self), SvgTreeChildrenDisplay(self.content))

\* A Debug that indents a child's lines once more than it should.
SvgTreeDebugDoubleIndent(self) ==
    FormatElement(self.tag, DebugAttrs(self),
                  IF self.content.variant = "Content"
                  THEN IndentContent(SvgTreeChildrenDebug(self.content))
                  ELSE IndentContent(IndentContent(SvgTreeChildrenDebug(self.content))))

\* impl Debug for SvgTree
SvgTreeDebug(self) ==
    FormatElement(self.tag, DebugAttrs(self),
                  IndentContent(SvgTreeChildrenDebug(self.content)))

(***************************************************************************)
(* The builder: a caller holds up to two trees, constructs nodes, sets     *)
(* the public fields and moves one tree into another with add.             *)
(***************************************************************************)

\* Bounds of the model.
MaxNodes == 4
MaxAdds == 3
MaxAttrs == 2
MaxTextLen == 2

Slots == {1, 2}

\* Tags: a plain one, and one spanning three lines, the middle one blank.
Tags == {Str("t"), Str("p\n \nq")}

\* Texts of the leaves of larger trees.
SampleTexts == {Str("a"), <<>>, Str(" "), Str("a\n b"), Str("a\n"), Str("a\r")}

\* All texts up to MaxTextLen over a letter, a space and the line breaks.
TextChars == {"a", " ", LF, CR}
AllTexts == UNION {[1..n -> TextChars] : n \in 0..MaxTextLen}

\* Attribute entries: keys on both sides of "viewBox" in byte order, a key
\* that is a prefix of another, the key "viewBox" itself, a repeated key.
AttrPairs ==
    { <<Str("Z"), Str("1")>>, <<Str("b"), Str("1")>>, <<Str("b"), Str("2")>>,
      <<Str("ba"), Str("1")>>, <<Str("viewBox"), Str("9")>>, <<Str("x"), Str("1")>> }

ViewBoxes == {ViewBoxDefault, <<0, 0, 2, 1>>}
Ids == {None, Some(Str("i"))}
LiteralContents == {Children(<<>>), Content(<<>>), Content(Str("a"))}

VARIABLES
    slot,    \* slot[i]: the tree the caller holds in binding i, if any
    orig,    \* orig[i]: that tree's node as it was constructed
    calls    \* calls[i]: the add calls made on that node since

vars == <<slot, orig, calls>>

RECURSIVE NodeCount(_)
NodeCount(tree) ==
    IF tree.content.variant = "Content" THEN 1
    ELSE LET RECURSIVE Sum(_)
             Sum(ns) == IF ns = <<>> THEN 0 ELSE NodeCount(Head(ns)) + Sum(Tail(ns))
         IN  1 + Sum(tree.content.val)

Held(i) == IF slot[i] = None THEN 0 ELSE NodeCount(slot[i][1])
HeldElsewhere(i) == IF i = 1 THEN Held(2) ELSE Held(1)

Bind(i, tree, first, n) ==
    /\ slot' = [slot EXCEPT ![i] = Some(tree)]
    /\ orig' = [orig EXCEPT ![i] = Some(first)]
    /\ calls' = [calls EXCEPT ![i] = n]

Init ==
    /\ slot = [i \in Slots |-> None]
    /\ orig = [i \in Slots |-> None]
    /\ calls = [i \in Slots |-> 0]

\* let s_i = SvgTree::root();
Root(i) ==
    /\ HeldElsewhere(i) + 1 <= MaxNodes
    /\ Bind(i, root, root, 0)

\* let s_i = SvgTree::leaf(tag, content);
Leaf(i, tag, content) ==
    /\ HeldElsewhere(i) + 1 <= MaxNodes
    /\ Bind(i, leaf(tag, content), leaf(tag, content), 0)

\* let s_i = SvgTree { tag, content, attrs: BTreeMap::new(), id, viewbox };
Literal(i, tag, content, id, viewbox) ==
    /\ HeldElsewhere(i) + 1 <= MaxNodes
    /\ LET tree == SvgTree(tag, content, BTreeMapNew, id, viewbox)
       IN  Bind(i, tree, tree, 0)

\* s_i.attrs.insert(k, v);
InsertAttr(i, kv) ==
    /\ slot[i] # None
    /\ LET tree == [slot[i][1] EXCEPT !.attrs = BTreeMapInsert(@, kv[1], kv[2])]
           first == [orig[i][1] EXCEPT !.attrs = BTreeMapInsert(@, kv[1], kv[2])]
       IN  /\ Len(tree.attrs) <= MaxAttrs
           /\ tree # slot[i][1]
           /\ Bind(i, tree, first, calls[i])

\* let s_i = s_i.add(s_j);   (s_j is moved)
Add(i, j) ==
    /\ i # j
    /\ slot[i] # None
    /\ slot[j] # None
    /\ calls[i] < MaxAdds
    /\ slot' = [slot EXCEPT ![i] = Some(add(slot[i][1], slot[j][1])), ![j] = None]
    /\ orig' = [orig EXCEPT ![j] = None]
    /\ calls' = [calls EXCEPT ![i] = @ + 1, ![j] = 0]

\* let s_i = s_i.add(child);   with child built in place
AddChild(i, child) ==
    /\ slot[i] # None
    /\ calls[i] < MaxAdds
    /\ Held(i) + NodeCount(child) <= MaxNodes
    /\ Bind(i, add(slot[i][1], child), orig[i][1], calls[i] + 1)

\* let s_i = parent.add(s_i);   with parent built in place
AddTo(i, parent) ==
    /\ slot[i] # None
    /\ Held(i) + NodeCount(parent) <= MaxNodes
    /\ Bind(i, add(parent, slot[i][1]), parent, 1)

\* Trees built by the two constructors and add, as the tests build them.
Next ==
    \E i \in Slots :
        \/ Root(i)
        \/ \E x \in SampleTexts : Leaf(i, Str("t"), x)
        \/ \E j \in Slots : Add(i, j)

Spec == Init /\ [][Next]_vars

\* One node with any fields, alone and nested one level: built as a literal
\* or by root(), its attributes inserted, then put under a root or given a
\* first child.
NextNode ==
    \/ \E t \in Tags, c \in LiteralContents, id \in Ids,
          vb \in {None} \cup {Some(v) : v \in ViewBoxes} : Literal(1, t, c, id, vb)
    \/ Root(1)
    \/ \E kv \in AttrPairs : InsertAttr(1, kv)
    \/ Held(1) = 1 /\ AddTo(1, root)
    \/ Held(1) = 1 /\ \E c \in {root, leaf(Str("t"), Str("a"))} : AddChild(1, c)

SpecNode == Init /\ [][NextNode]_vars

\* One leaf with any short text, under roots and beside plain siblings.
NextLeaf ==
    \/ \E t \in Tags, x \in AllTexts : Leaf(1, t, x)
    \/ AddTo(1, root)
    \/ \E c \in {root, leaf(Str("t"), Str("a"))} : AddChild(1, c)

SpecLeaf == Init /\ [][NextLeaf]_vars

(***************************************************************************)
(* Vocabulary of the properties                                            *)
(***************************************************************************)

\* A tree's nodes, each with its nesting depth below the tree's own node.
RECURSIVE NodesAt(_, _)
NodesAt(tree, depth) ==
    {[node |-> tree, depth |-> depth]} \cup
    (IF tree.content.variant = "Content" THEN {}
     ELSE UNION {NodesAt(tree.content.val[k], depth + 1) : k \in 1..Len(tree.content.val)})

\* Every node of every tree the caller holds.
HeldNodes == UNION {NodesAt(slot[i][1], 0) : i \in {j \in Slots : slot[j] # None}}

IsPrefix(p, s) == Len(p) <= Len(s) /\ SubSeq(s, 1, Len(p)) = p
IsSuffix(p, s) == Len(p) <= Len(s) /\ SubSeq(s, Len(s) - Len(p) + 1, Len(s)) = p
Occurrences(pat, s) ==
    Cardinality({k \in 1..(Len(s) - Len(pat) + 1) : SubSeq(s, k, k + Len(pat) - 1) = pat})
HasChar(c, s) == \E k \in 1..Len(s) : s[k] = c

FirstIndex(pat, s) ==
    CHOOSE k \in 1..(Len(s) - Len(pat) + 1) :
        /\ SubSeq(s, k, k + Len(pat) - 1) = pat
        /\ \A j \in 1..(k - 1) : SubSeq(s, j, j + Len(pat) - 1) # pat

\* The text of a rendering up to and including its first ">".
OpeningOf(rendered) == SubSeq(rendered, 1, FirstIndex(<<">">>, rendered))

\* A text cut at every "\n", a final "\n" ending the last line.
OutputLines(s) ==
    LET lf == {p \in 1..Len(s) : s[p] = LF}
        n == Cardinality(lf) + (IF s # <<>> /\ s[Len(s)] # LF THEN 1 ELSE 0)
        stop(j) == IF j > Cardinality(lf) THEN Len(s) + 1
                   ELSE CHOOSE p \in lf : Cardinality({q \in lf : q < p}) = j - 1
        start(j) == IF j = 1 THEN 1 ELSE stop(j - 1) + 1
    IN  [j \in 1..n |-> SubSeq(s, start(j), stop(j) - 1)]

RECURSIVE Concat(_)
Concat(items) == IF items = <<>> THEN <<>> ELSE Head(items) \o Concat(Tail(items))

\* The entries of a set of key/value pairs with distinct keys, by ascending key.
RECURSIVE Ascending(_)
Ascending(entries) ==
    IF entries = {} THEN <<>>
    ELSE LET least == CHOOSE e \in entries : \A f \in entries \ {e} : StrLess(e[1], f[1])
         IN  <<least>> \o Ascending(entries \ {least})

EntrySet(node) == {node.attrs[k] : k \in 1..Len(node.attrs)}

\* The opening tag the data model calls for: the attrs by ascending key, then
\* the view box if there is one, each entry after one space.
ExpectedOpening(node) ==
    LET sorted == Ascending(EntrySet(node))
        vb == IF node.viewbox = None THEN <<>>
              ELSE Str(" viewBox=\"") \o ViewBoxToString(node.viewbox[1]) \o Str("\"")
    IN  <<"<">> \o node.tag
        \o Concat([k \in 1..Len(sorted) |->
                      <<" ">> \o sorted[k][1] \o Str("=\"") \o sorted[k][2] \o Str("\"")])
        \o vb \o <<">">>

Closing(node) == Str("</") \o node.tag \o <<">">>

RootOpening ==
    Str("<svg preserveAspectRatio=\"xMidYMid meet\" xmlns=\"http://www.w3.org/2000/svg\" viewBox=\"0 0 0 0\">")

Entry(kv) == <<" ">> \o kv[1] \o Str("=\"") \o kv[2] \o Str("\"")

IsEmptyChildren(n) == n.content.variant = "Children" /\ n.content.val = <<>>

IsLeafOf(n, t, x) == n = leaf(t, x)

BodyOf(n) ==
    SubSeq(SvgTreeDebug(n), Len(ExpectedOpening(n)) + 1,
           Len(SvgTreeDebug(n)) - Len(Closing(n)))

CompactBody(n) ==
    SubSeq(SvgTreeDisplay(n), Len(ExpectedOpening(n)) + 1,
           Len(SvgTreeDisplay(n)) - Len(Closing(n)))

Spaces(n) == [k \in 1..n |-> " "]

IsPlainNode(n) ==
    /\ ~HasChar(LF, n.tag)
    /\ \A e \in EntrySet(n) : ~HasChar(LF, e[1]) /\ ~HasChar(LF, e[2])
    /\ n.content.variant = "Content" =>
           \A k \in 1..Len(Lines(n.content.val)) : ~TrimIsEmpty(Lines(n.content.val)[k])

IsPlain(tree) == \A h \in NodesAt(tree, 0) : IsPlainNode(h.node)

\* The lines of a node at a depth, each with the indentation of its depth.
\* The lines of a text are those its "\n"-terminated form has: an empty
\* text, or one ending in a line break, ends with an empty line.
RECURSIVE Layout(_, _)
Layout(n, depth) ==
    IF IsEmptyChildren(n)
    THEN <<Spaces(2 * depth) \o ExpectedOpening(n) \o Closing(n)>>
    ELSE LET inner ==
                 IF n.content.variant = "Children"
                 THEN Concat([k \in 1..Len(n.content.val) |->
                                 Layout(n.content.val[k], depth + 1)])
                 ELSE LET ls == Lines(n.content.val \o <<LF>>)
                      IN  [k \in 1..Len(ls) |->
                              IF ls[k] = <<>> THEN <<>>
                              ELSE Spaces(2 * (depth + 1)) \o ls[k]]
         IN  <<Spaces(2 * depth) \o ExpectedOpening(n)>> \o inner
             \o <<Spaces(2 * depth) \o Closing(n)>>

(***************************************************************************)
(* C1: in both renderings of every node the opening tag holds one          *)
(* key="value" entry per entry of attrs, by ascending byte-wise key order, *)
(* then viewBox="..." exactly when the view box is present, and nothing    *)
(* else (the id never shows); for root() it is preserveAspectRatio, xmlns, *)
(* viewBox="0 0 0 0".                                                      *)
(***************************************************************************)
C1_AttributeList ==
    \A h \in HeldNodes :
        LET n == h.node
        IN  /\ Cardinality(EntrySet(n)) = Len(n.attrs)
            /\ IsPrefix(ExpectedOpening(n), SvgTreeDisplay(n))
            /\ IsPrefix(ExpectedOpening(n), SvgTreeDebug(n))
            /\ (n = root => ExpectedOpening(n) = RootOpening)

C1_Witness ==
    \E h \in HeldNodes :
        /\ h.node.id # None
        /\ h.node.viewbox # None
        /\ Len(h.node.attrs) >= 2
        /\ \E k \in 1..Len(h.node.attrs) : StrLess(Str("viewBox"), h.node.attrs[k][1])
        /\ \E g \in HeldNodes : g.node = root

(***************************************************************************)
(* C10: with the view box present and a key "viewBox" in attrs, both       *)
(* renderings carry both entries: the attrs one at its place among the     *)
(* keys, the injected one last.  The opening tag holds |attrs| + 1 entries *)
(* with the view box present and |attrs| without; neither entry replaces   *)
(* the other.                                                              *)
(***************************************************************************)
C10_BothViewBoxEntries ==
    \A h \in HeldNodes :
        LET n == h.node
            injected == Str(" viewBox=\"") \o ViewBoxToString(n.viewbox[1]) \o Str("\">")
        IN  \A o \in {OpeningOf(SvgTreeDisplay(n)), OpeningOf(SvgTreeDebug(n))} :
                /\ Occurrences(Str("=\""), o)
                       = Len(n.attrs) + (IF n.viewbox = None THEN 0 ELSE 1)
                /\ \A e \in EntrySet(n) : Occurrences(Entry(e), o) = 1
                /\ \A e, f \in EntrySet(n) :
                       StrLess(e[1], f[1]) => FirstIndex(Entry(e), o) < FirstIndex(Entry(f), o)
                /\ n.viewbox # None => IsSuffix(injected, o)
                /\ (n.viewbox # None /\ \E e \in EntrySet(n) : e[1] = Str("viewBox"))
                       => Occurrences(Str(" viewBox=\""), o) = 2

C10_Witness ==
    \E h \in HeldNodes :
        /\ h.node.viewbox # None
        /\ \E e, f \in EntrySet(h.node) :
               e[1] = Str("viewBox") /\ StrLess(e[1], f[1])

(***************************************************************************)
(* C2: a Children node with no children renders in indented mode exactly   *)
(* as in compact mode, <TAG ATTRS></TAG> with no newline brought in, for   *)
(* any tag, attrs and view box; nested as a child, its line gains only the *)
(* parent's two spaces.                                                    *)
(***************************************************************************)
C2_EmptyChildrenCollapse ==
    \A h \in HeldNodes :
        LET n == h.node
        IN  /\ IsEmptyChildren(n) =>
                /\ SvgTreeDebug(n) = SvgTreeDisplay(n)
                /\ SvgTreeDebug(n) = ExpectedOpening(n) \o Closing(n)
                /\ Occurrences(<<LF>>, SvgTreeDebug(n)) = 2 * Occurrences(<<LF>>, n.tag)
            /\ n.content.variant = "Children" =>
                \A k \in 1..Len(n.content.val) :
                    LET c == n.content.val[k]
                    IN  (IsEmptyChildren(c) /\ ~HasChar(LF, SvgTreeDisplay(c)))
                        => OutputLines(SvgTreeDebug(n))[k + Len(OutputLines(OpeningOf(SvgTreeDebug(n))))]
                               = <<" ", " ">> \o SvgTreeDisplay(c)

C2_Witness ==
    \E h \in HeldNodes :
        /\ h.depth = 1
        /\ IsEmptyChildren(h.node)
        /\ h.node.tag = Str("t")
        /\ h.node.viewbox = None
        /\ Len(h.node.attrs) >= 1

(***************************************************************************)
(* C8: a Text node with the empty string still gets a content line in      *)
(* indented mode: opening tag, newline, an empty line, newline, closing    *)
(* tag.  That differs from its compact form <TAG ATTRS></TAG> and from the *)
(* indented form of a Children node with no children.                      *)
(***************************************************************************)
C8_EmptyTextKeepsLine ==
    \A h \in HeldNodes :
        LET n == h.node
        IN  (n.content.variant = "Content" /\ n.content.val = <<>>) =>
                /\ SvgTreeDebug(n) = ExpectedOpening(n) \o <<LF, LF>> \o Closing(n)
                /\ SvgTreeDisplay(n) = ExpectedOpening(n) \o Closing(n)
                /\ SvgTreeDebug(n) # SvgTreeDisplay(n)
                /\ SvgTreeDebug(n) # SvgTreeDebug([n EXCEPT !.content = Children(<<>>)])

C8_Witness ==
    \E h \in HeldNodes :
        /\ h.node.content = Content(<<>>)
        /\ h.node.viewbox # None
        /\ Len(h.node.attrs) >= 1

(***************************************************************************)
(* C3: for every tag t and every text x that is one non-blank line (no     *)
(* newline, some non-whitespace character), leaf(t, x) renders compactly   *)
(* as <t>x</t> and indented as <t>, newline, two spaces and x, newline,    *)
(* </t>.                                                                   *)
(***************************************************************************)
C3_LeafRendering ==
    \A h \in HeldNodes :
        LET n == h.node
            t == n.tag
            x == n.content.val
        IN  (n.content.variant = "Content" /\ IsLeafOf(n, t, x)
                /\ ~HasChar(LF, x) /\ ~TrimIsEmpty(x)) =>
                /\ SvgTreeDisplay(n) = <<"<">> \o t \o <<">">> \o x \o Str("</") \o t \o <<">">>
                /\ SvgTreeDebug(n) = <<"<">> \o t \o <<">", LF, " ", " ">> \o x
                                        \o <<LF>> \o Str("</") \o t \o <<">">>

\* The same with the texts ending in a carriage return left out.
C3_LeafRenderingNoTrailingCR ==
    \A h \in HeldNodes :
        LET n == h.node
            t == n.tag
            x == n.content.val
        IN  (n.content.variant = "Content" /\ IsLeafOf(n, t, x)
                /\ ~HasChar(LF, x) /\ ~TrimIsEmpty(x) /\ x[Len(x)] # CR) =>
                /\ SvgTreeDisplay(n) = <<"<">> \o t \o <<">">> \o x \o Str("</") \o t \o <<">">>
                /\ SvgTreeDebug(n) = <<"<">> \o t \o <<">", LF, " ", " ">> \o x
                                        \o <<LF>> \o Str("</") \o t \o <<">">>

(***************************************************************************)
(* C9: in indented output, at any depth, every whitespace-only line of a   *)
(* node's body comes out as an empty line, without indentation and without *)
(* its own whitespace, whether it is a line of text or of a rendered       *)
(* child.  A text of spaces only renders as the empty text does, and no    *)
(* line of the body is non-empty and whitespace-only.                      *)
(***************************************************************************)
C9_BlankLinesEmpty ==
    \A h \in HeldNodes :
        LET n == h.node
            before == Lines(SvgTreeChildrenDebug(n.content))
            after == OutputLines(BodyOf(n))
        IN  /\ SvgTreeDebug(n) = ExpectedOpening(n) \o BodyOf(n) \o Closing(n)
            /\ Len(after) = Len(before)
            /\ \A k \in 1..Len(before) : TrimIsEmpty(before[k]) => after[k] = <<>>
            /\ \A k \in 1..Len(after) : after[k] = <<>> \/ ~TrimIsEmpty(after[k])
            /\ (n.content.variant = "Content" /\ \A k \in 1..Len(n.content.val) : n.content.val[k] = " ")
                   => SvgTreeDebug(n) = SvgTreeDebug([n EXCEPT !.content = Content(<<>>)])

C9_Witness ==
    \E h, g \in HeldNodes :
        /\ h.depth = 2
        /\ h.node.content = Content(Str(" "))
        /\ h.node.tag = Str("p\n \nq")
        /\ g.depth = 1
        /\ \E k \in 1..Len(Lines(SvgTreeChildrenDebug(g.node.content))) :
               LET l == Lines(SvgTreeChildrenDebug(g.node.content))[k]
               IN  l # <<>> /\ TrimIsEmpty(l)

(***************************************************************************)
(* Steps of add, as the properties of add see them                         *)
(***************************************************************************)

\* This step is s_i.add(s_j): s_j is moved away and s_i has one more call.
AddStep(i, j) ==
    /\ i # j
    /\ slot[i] # None
    /\ slot[j] # None
    /\ slot'[i] # None
    /\ slot'[j] = None
    /\ calls'[i] = calls[i] + 1

(***************************************************************************)
(* C4: a Children node that starts with no children and is given c1..cn by *)
(* add has, between its opening and closing tag in compact mode, exactly   *)
(* compact(c1) ... compact(cn) in call order, nothing between or around.   *)
(* Stated on steps: a fresh node has an empty body, and each add appends   *)
(* the compact form of the child it was given.                             *)
(***************************************************************************)
C4_CompactBodyInCallOrder ==
    [][\A i \in Slots :
          /\ (slot'[i] # None /\ slot'[i][1].content.variant = "Children") =>
                LET q == slot'[i][1]
                IN  /\ SvgTreeDisplay(q) = ExpectedOpening(q) \o CompactBody(q) \o Closing(q)
                    /\ calls'[i] = 0 => CompactBody(q) = <<>>
          /\ \A j \in Slots :
                (AddStep(i, j) /\ slot[i][1].content.variant = "Children") =>
                    CompactBody(slot'[i][1])
                        = CompactBody(slot[i][1]) \o SvgTreeDisplay(slot[j][1])]_vars

C4_Witness ==
    \E i \in Slots :
        /\ slot[i] # None
        /\ orig[i] = Some(root)
        /\ calls[i] = 3
        /\ LET kids == slot[i][1].content.val
           IN  /\ Len(kids) = 3
               /\ kids[1] # kids[2]
               /\ kids[2] # kids[3]
               /\ kids[1] # kids[3]

(***************************************************************************)
(* C6: add on a Text node changes nothing: the node returned renders, in   *)
(* both modes, as the node did before any add, the child is dropped, and   *)
(* this stays so however many adds follow.                                 *)
(***************************************************************************)
C6_NoOpAppend ==
    \A i \in Slots :
        (slot[i] # None /\ orig[i][1].content.variant = "Content" /\ calls[i] >= 1) =>
            /\ SvgTreeDisplay(slot[i][1]) = SvgTreeDisplay(orig[i][1])
            /\ SvgTreeDebug(slot[i][1]) = SvgTreeDebug(orig[i][1])
            /\ NodeCount(slot[i][1]) = 1

C6_Witness ==
    \E i \in Slots :
        /\ slot[i] # None
        /\ orig[i][1].content.variant = "Content"
        /\ calls[i] = MaxAdds

(***************************************************************************)
(* C7: add only appends.  Across add calls the content variant stays (a    *)
(* Text keeps its string), tag, attrs, id and viewbox stay, and on a       *)
(* Children node each add makes the child count one more, puts the new     *)
(* child last and keeps the children before it, in order.                  *)
(***************************************************************************)
C7_AppendOnly ==
    [][\A i, j \in Slots :
          AddStep(i, j) =>
              LET p == slot[i][1]
                  q == slot'[i][1]
                  c == slot[j][1]
              IN  /\ q.tag = p.tag
                  /\ q.attrs = p.attrs
                  /\ q.id = p.id
                  /\ q.viewbox = p.viewbox
                  /\ q.content.variant = p.content.variant
                  /\ p.content.variant = "Content" => q.content = p.content
                  /\ p.content.variant = "Children" =>
                        /\ Len(q.content.val) = Len(p.content.val) + 1
                        /\ q.content.val[Len(q.content.val)] = c
                        /\ SubSeq(q.content.val, 1, Len(p.content.val)) = p.content.val]_vars

C7_Witness ==
    \E i \in Slots :
        /\ slot[i] # None
        /\ slot[i][1].content.variant = "Children"
        /\ calls[i] = 2
        /\ Len(slot[i][1].content.val) = 2
        /\ slot[i][1].content.val[1] # slot[i][1].content.val[2]
        /\ slot[i][1].content.val[1].content.variant = "Children"

====
